---- MODULE Spec2Model ----
(***************************************************************************)
(* FloatChat (src/ocean.py): the conversational session of the Streamlit   *)
(* dashboard.  The script is run top to bottom on every user event; the    *)
(* message log lives in st.session_state and survives the runs.  A text is *)
(* a string, that is a sequence of characters: strip(), the f-string       *)
(* template and the "\n" -> "<br>" replacement are computed on its          *)
(* characters, as the code computes them.                                  *)
(***************************************************************************)
EXTENDS Naturals, Sequences, FiniteSets

VARIABLES
  session_state,    \* st.session_state: a mapping, with key "messages" once initialized
  user_input,       \* value of the text_input widget (key "user_input")
  export_format,    \* value of the "Select Export Format" selectbox
  clicked,          \* key of the button that triggered the latest script run, or "none"
  pc,               \* position of the script run: "start", "idle", "quick_sleep", "send_sleep",
                    \* "export_sleep"
  query,            \* the query of the latest submit handler (loop variable / user_input)
  ai_resp,          \* the response text the latest handler resolved
  clock,            \* wall clock, in minutes of the day (datetime.now())
  accepted,         \* number of submits accepted so far in the session
  chat_html_parts,  \* the chat entries of the latest render, in order
  st_success,       \* the st.success text the latest completed run showed, or ""
  tab3              \* the download column of the latest completed run

vars == << session_state, user_input, export_format, clicked, pc, query, ai_resp,
           clock, accepted, chat_html_parts, st_success, tab3 >>

\* ------------------------------------------------------------------ bounds

\* accepted submits per session
MaxSubmits == 1

\* minutes the clock may advance during the simulated delays of the session
MaxTicks == 1

\* length of the free texts given to the template of the Send handler
MaxLen == 3

\* wall-clock time at session start: 09:59
StartClock == (9 * 60) + 59

\* ------------------------------------------------------------ string literals

\* src/ocean.py:75  "content" of the seeded message
greeting ==
  "Hello! I'm your ocean data assistant. How can I help you explore ARGO data today?"

\* src/ocean.py:76  "timestamp" of the seeded message
seed_timestamp ==
  "10:00 AM"

\* src/ocean.py:146
query_hawaii ==
  "Show floats near Hawaii"

\* src/ocean.py:147
query_salinity ==
  "Salinity trends last 6 months"

\* src/ocean.py:148
query_temperature ==
  "Temperature at 200m depth"

\* src/ocean.py:149
query_bgc ==
  "Compare BGC parameters"

\* src/ocean.py:164
response_hawaii ==
  "I found 12 ARGO floats near Hawaii in the last month. Here are their trajectories and data profiles."

\* src/ocean.py:165
response_salinity ==
  "Salinity has shown a slight decrease of 0.2 PSU in the Pacific Ocean over the last 6 months. Here's the trend analysis."

\* src/ocean.py:166
response_temperature ==
  "The average temperature at 200m depth is 15.3°C across all ARGO floats. Here's the spatial distribution."

\* src/ocean.py:167
response_bgc ==
  "I've compared Bio-Geo-Chemical parameters across different ocean basins. The Indian Ocean shows higher chlorophyll concentrations."

\* src/ocean.py:169  default of responses.get
default_response ==
  "Here are the results visualized on the map and graphs."

\* src/ocean.py:188  f-string text before {user_input}
ai_response_prefix ==
  "I'm processing your request for '"

\* src/ocean.py:188  f-string text after {user_input}
ai_response_suffix ==
  "'. Here are the results visualized on the map and graphs."

\* ------------------------------------------------------------- pure helpers

\* the characters str.strip() removes, among the characters a string of this module can
\* hold: space, tab, line feed, carriage return, form feed, then U+000B, U+001C to
\* U+001F, U+0085, U+00A0 (no-break space) and U+1680.  Python also removes U+2000 to
\* U+200A, U+2028, U+2029, U+202F, U+205F and U+3000, which no string here can hold.
Whitespace ==
  {" ", "\t", "\n", "\r", "\f",
   "", "", "", "", "", "", " ", " "}

\* positions of s holding a character strip() keeps
Kept(s) == {i \in 1..Len(s) : SubSeq(s, i, i) \notin Whitespace}

\* str.lstrip(): s from its first non-whitespace character on
lstrip(s) ==
  IF Kept(s) = {} THEN ""
  ELSE SubSeq(s, CHOOSE i \in Kept(s) : \A j \in Kept(s) : i <= j, Len(s))

\* str.rstrip(): s up to its last non-whitespace character
rstrip(s) ==
  IF Kept(s) = {} THEN ""
  ELSE SubSeq(s, 1, CHOOSE i \in Kept(s) : \A j \in Kept(s) : j <= i)

\* user_input.strip()
strip(s) == rstrip(lstrip(s))

\* the mutated acceptance test: the emptiness test without the strip
AcceptsUnstripped(text) == text # ""

\* line 181: user_input and user_input.strip() != ""
Accepts(text) == text # "" /\ strip(text) # ""

Digits == "0123456789"

\* the decimal digit d as a character
Digit(d) == SubSeq(Digits, d + 1, d + 1)

\* datetime.now().strftime("%H:%M") for the clock at t minutes of the day
strftime(t) ==
  LET h == (t % 1440) \div 60
      m == (t % 1440) % 60
  IN  Digit(h \div 10) \o Digit(h % 10) \o ":" \o Digit(m \div 10) \o Digit(m % 10)

\* a message dict
Message(role, content, timestamp) ==
  [role |-> role, content |-> content, timestamp |-> timestamp]

\* the mutated append: the new message is put in front
PrependMessage(msgs, m) == << m >> \o msgs

\* list.append
AppendMessage(msgs, m) == Append(msgs, m)

\* the seeded greeting
seed_message == Message("assistant", greeting, seed_timestamp)

\* the mutated initialization: the guard "not in st.session_state" is dropped
InitializeAlways(ss) == [messages |-> << seed_message >>]

\* lines 71-78: seed the log unless the session already has one
Initialize(ss) ==
  IF "messages" \notin DOMAIN ss THEN [messages |-> << seed_message >>] ELSE ss

\* the quick-query buttons, in order
suggested_queries == << query_hawaii, query_salinity, query_temperature, query_bgc >>

\* the canned mapping of the quick-query handler
responses ==
  [q \in {query_hawaii, query_salinity, query_temperature, query_bgc} |->
     CASE q = query_hawaii -> response_hawaii
       [] q = query_salinity -> response_salinity
       [] q = query_temperature -> response_temperature
       [] OTHER -> response_bgc]

\* responses.get(query, default)
responses_get(q, default) == IF q \in DOMAIN responses THEN responses[q] ELSE default

\* the mutated template: the generic text of the quick-query default, the query left out
ai_response_generic(text) == default_response

\* the f-string of the Send handler
ai_response(text) == ai_response_prefix \o text \o ai_response_suffix

RECURSIVE replace_newline(_)
\* str(content).replace("\n", "<br>"): s itself when it holds no newline, else by halves
replace_newline(s) ==
  IF \A i \in 1..Len(s) : SubSeq(s, i, i) # "\n" THEN s
  ELSE IF Len(s) = 1 THEN (IF s = "\n" THEN "<br>" ELSE s)
  ELSE replace_newline(SubSeq(s, 1, Len(s) \div 2))
       \o replace_newline(SubSeq(s, (Len(s) \div 2) + 1, Len(s)))

\* the render loop: one entry per message, in list order
RenderChat(msgs) ==
  [i \in 1..Len(msgs) |->
     [role_class |-> IF msgs[i].role = "assistant" THEN "assistant" ELSE "user",
      content |-> replace_newline(msgs[i].content),
      timestamp |-> msgs[i].timestamp]]

\* the mutated handler end: no rerun, the chat rendered before the handler stays
st_no_rerun(msgs, shown) == shown

\* st.rerun(): the script runs again at once and renders the log as it now is
st_rerun(msgs, shown) == RenderChat(msgs)

\* options of the export format selectbox
ExportFormats == {"CSV", "NetCDF", "JSON", "Excel"}

\* lines 351-357: the download column for the selected format
ExportBranch(format) ==
  IF format = "CSV"
  THEN [download_button |-> TRUE, warning |-> ""]
  ELSE [download_button |-> FALSE,
        warning |-> format \o " export requires additional setup. Please use CSV format for now."]

\* key of the i-th quick-query button
QuickKey(i) == "quick_" \o Digit(i - 1)

\* texts typed into the text input: none, a space and a form feed (whitespace that is
\* none of space, tab, line feed, carriage return), a letter between spaces, a canned query
TypedInputs ==
  { "", " \f", " a ", query_temperature }

\* letters of the free texts given to the template of the Send handler
Alphabet == {" ", "a", "z", "'"}

\* every text over Alphabet of length at most MaxLen
RECURSIVE TextsOfLen(_)
\* every text over Alphabet of length n
TextsOfLen(n) ==
  IF n = 0 THEN {""} ELSE {t \o c : t \in TextsOfLen(n - 1), c \in Alphabet}

\* every text over Alphabet of length at most MaxLen
FreeTexts == UNION {TextsOfLen(n) : n \in 0..MaxLen}

\* the log, empty while the session has none
Messages == IF "messages" \in DOMAIN session_state THEN session_state.messages ELSE ""

\* ------------------------------------------------------------------- Init

Init ==
  /\ session_state = << >>
  /\ user_input = ""
  /\ export_format = "CSV"
  /\ clicked = "none"
  /\ pc = "start"
  /\ query = ""
  /\ ai_resp = ""
  /\ clock = StartClock
  /\ accepted = 0
  /\ chat_html_parts = << >>
  /\ st_success = ""
  /\ tab3 = [download_button |-> FALSE, warning |-> ""]

\* ------------------------------------------------------------ script runs

\* a run that reaches the end of the script: log ss, trigger who, success text shown
RunToEnd(ss, who, success, format) ==
  /\ session_state' = ss
  /\ chat_html_parts' = RenderChat(ss.messages)
  /\ clicked' = who
  /\ st_success' = success
  /\ tab3' = ExportBranch(format)
  /\ pc' = "idle"

\* a run no button triggered and that changes no widget
PlainRun ==
  /\ RunToEnd(Initialize(session_state), "none", "", export_format)
  /\ UNCHANGED << user_input, export_format, query, ai_resp, clock, accepted >>

\* the text input changes to text
TypeRun(text) ==
  /\ user_input' = text
  /\ RunToEnd(Initialize(session_state), "none", "", export_format)
  /\ UNCHANGED << export_format, query, ai_resp, clock, accepted >>

\* the export format selectbox changes to format
SelectRun(format) ==
  /\ export_format' = format
  /\ RunToEnd(Initialize(session_state), "none", "", format)
  /\ UNCHANGED << user_input, query, ai_resp, clock, accepted >>

\* lines 276-277: Update Map
UpdateMapRun ==
  /\ RunToEnd(Initialize(session_state), "update_map",
              "Map updated with selected parameters!", export_format)
  /\ UNCHANGED << user_input, export_format, query, ai_resp, clock, accepted >>

\* lines 286-287: Apply Filters
ApplyFiltersRun ==
  /\ RunToEnd(Initialize(session_state), "apply_filters",
              "Filters applied to all visualizations!", export_format)
  /\ UNCHANGED << user_input, export_format, query, ai_resp, clock, accepted >>

\* lines 330-332: Generate Export, up to the simulated delay: the chat is rendered, the
\* success and the download column of this run are not shown yet
GenerateExportRun ==
  /\ session_state' = Initialize(session_state)
  /\ chat_html_parts' = RenderChat(Initialize(session_state).messages)
  /\ clicked' = "generate_export"
  /\ pc' = "export_sleep"
  /\ UNCHANGED << user_input, export_format, query, ai_resp, clock, accepted,
                  st_success, tab3 >>

\* lines 153-162: quick-query button i, up to the simulated delay
QuickRun(i) ==
  LET ss1 == Initialize(session_state)
      now == strftime(clock)
  IN  /\ accepted < MaxSubmits
      /\ chat_html_parts' = RenderChat(ss1.messages)
      /\ session_state' =
           [ss1 EXCEPT !.messages =
              AppendMessage(@, Message("user", suggested_queries[i], now))]
      /\ query' = suggested_queries[i]
      /\ clicked' = QuickKey(i)
      /\ accepted' = accepted + 1
      /\ pc' = "quick_sleep"
      /\ UNCHANGED << user_input, export_format, ai_resp, clock, st_success, tab3 >>

\* lines 179-187: Send, up to the simulated delay, or to the end when rejected
SendRun ==
  LET ss1 == Initialize(session_state)
      now == strftime(clock)
  IN  IF Accepts(user_input)
      THEN /\ accepted < MaxSubmits
           /\ chat_html_parts' = RenderChat(ss1.messages)
           /\ session_state' =
                [ss1 EXCEPT !.messages =
                   AppendMessage(@, Message("user", user_input, now))]
           /\ query' = user_input
           /\ clicked' = "send_button"
           /\ accepted' = accepted + 1
           /\ pc' = "send_sleep"
           /\ UNCHANGED << user_input, export_format, ai_resp, clock, st_success, tab3 >>
      ELSE /\ RunToEnd(ss1, "send_button", "", export_format)
           /\ UNCHANGED << user_input, export_format, query, ai_resp, clock, accepted >>

\* the run st.rerun() starts after a handler appended the response resp
Respond(resp) ==
  LET now2 == strftime(clock)
      ss2 == [session_state EXCEPT !.messages =
                AppendMessage(@, Message("assistant", resp, now2))]
      ss3 == Initialize(ss2)
  IN  /\ ai_resp' = resp
      /\ session_state' = ss3
      /\ chat_html_parts' = st_rerun(ss3.messages, chat_html_parts)
      /\ clicked' = "none"
      /\ st_success' = ""
      /\ tab3' = ExportBranch(export_format)
      /\ pc' = "idle"
      /\ UNCHANGED << user_input, export_format, query, clock, accepted >>

\* ---------------------------------------------------------------- actions

\* the first script run of the session
FirstRun == pc = "start" /\ PlainRun

\* a widget that feeds no handler changes (chart type, slider, ...): the script runs again
Rerun == pc = "idle" /\ PlainRun

\* the user types a text and leaves the field
TypeText == pc = "idle" /\ \E text \in TypedInputs : TypeRun(text)

\* the user picks an export format
SelectExportFormat == pc = "idle" /\ \E format \in ExportFormats : SelectRun(format)

\* the user clicks Update Map
ClickUpdateMap == pc = "idle" /\ UpdateMapRun

\* the user clicks Apply Filters
ClickApplyFilters == pc = "idle" /\ ApplyFiltersRun

\* the user clicks Generate Export
ClickGenerateExport == pc = "idle" /\ GenerateExportRun

\* the user clicks a quick-query button
ClickQuick == pc = "idle" /\ \E i \in 1..Len(suggested_queries) : QuickRun(i)

\* the user clicks Send
ClickSend == pc = "idle" /\ SendRun

\* lines 333-361: after the delay, the success whatever the format, then the rest of the
\* script
ExportDone ==
  /\ pc = "export_sleep"
  /\ RunToEnd(session_state, "generate_export", "Your data is ready for download!",
              export_format)
  /\ UNCHANGED << user_input, export_format, query, ai_resp, clock, accepted >>

\* lines 163-175: after the delay, the canned response and the rerun
QuickRespond == pc = "quick_sleep" /\ Respond(responses_get(query, default_response))

\* lines 188-192: after the delay, the templated response and the rerun
SendRespond == pc = "send_sleep" /\ Respond(ai_response(query))

\* a widget event arrives during a delay: the framework stops the run at its next access
\* to st.session_state (line 171 or 189) or when it leaves the spinner (line 331), and
\* runs the script for the event
Interrupt ==
  /\ pc \in {"quick_sleep", "send_sleep", "export_sleep"}
  /\ \/ PlainRun
     \/ \E text \in TypedInputs : TypeRun(text)
     \/ \E format \in ExportFormats : SelectRun(format)
     \/ UpdateMapRun
     \/ ApplyFiltersRun
     \/ GenerateExportRun
     \/ \E i \in 1..Len(suggested_queries) : QuickRun(i)
     \/ SendRun

\* time.sleep (lines 162, 187): a minute boundary passes between the two clock readings
\* of a submit handler
Tick ==
  /\ pc \in {"quick_sleep", "send_sleep"}
  /\ clock < StartClock + MaxTicks
  /\ clock' = (clock + 1) % 1440
  /\ UNCHANGED << session_state, user_input, export_format, clicked, pc, query, ai_resp,
                  accepted, chat_html_parts, st_success, tab3 >>

\* the session: one user event or one step of the running script at a time
Next ==
  \/ FirstRun
  \/ Rerun
  \/ TypeText
  \/ SelectExportFormat
  \/ ClickUpdateMap
  \/ ClickApplyFilters
  \/ ClickGenerateExport
  \/ ClickQuick
  \/ ClickSend
  \/ ExportDone
  \/ QuickRespond
  \/ SendRespond
  \/ Interrupt
  \/ Tick

Spec == Init /\ [][Next]_vars


\* ------------------------------------------------------------------ claims

\* s holds t as a contiguous run of characters
Contains(s, t) ==
  \E i \in 1..((Len(s) + 1) - Len(t)) : SubSeq(s, i, (i + Len(t)) - 1) = t

\* t is empty or holds whitespace only
IsBlank(t) == \A i \in 1..Len(t) : SubSeq(t, i, i) \in Whitespace

\* a is an initial part of b
IsPrefix(a, b) == Len(a) <= Len(b) /\ SubSeq(b, 1, Len(a)) = a

\* the four canned queries
CannedQueries ==
  { "Show floats near Hawaii", "Salinity trends last 6 months",
    "Temperature at 200m depth", "Compare BGC parameters" }

\* the fixed response the specification gives for a canned query
CannedResponse(q) ==
  CASE q = "Show floats near Hawaii" ->
         "I found 12 ARGO floats near Hawaii in the last month. Here are their trajectories and data profiles."
    [] q = "Salinity trends last 6 months" ->
         "Salinity has shown a slight decrease of 0.2 PSU in the Pacific Ocean over the last 6 months. Here's the trend analysis."
    [] q = "Temperature at 200m depth" ->
         "The average temperature at 200m depth is 15.3°C across all ARGO floats. Here's the spatial distribution."
    [] q = "Compare BGC parameters" ->
         "I've compared Bio-Geo-Chemical parameters across different ocean basins. The Indian Ocean shows higher chlorophyll concentrations."

\* C1: whenever no script run is in progress, the log has exactly 1 + 2N messages, N the
\* number of submits accepted so far, and every user message is immediately followed by
\* an assistant message.
C1_LengthAndPairing ==
  pc = "idle" =>
    /\ Len(Messages) = 1 + (2 * accepted)
    /\ \A i \in 1..Len(Messages) :
         Messages[i].role = "user" =>
           i < Len(Messages) /\ Messages[i + 1].role = "assistant"

\* C2: a submit of one of the four suggested query strings has the log effect of the
\* quick-query button for that string, by whichever path it came: when the log ends with
\* a user message holding such a string and the assistant message answering it, that
\* answer is the response the quick-query lookup gives for the string.
C2_QuickEquivalence ==
  ( /\ pc = "idle"
    /\ Len(Messages) >= 3
    /\ Messages[Len(Messages) - 1].role = "user"
    /\ Messages[Len(Messages) - 1].content \in CannedQueries
    /\ Messages[Len(Messages)].role = "assistant" )
  => Messages[Len(Messages)].content =
       responses_get(Messages[Len(Messages) - 1].content, default_response)

\* C3: every assistant message that answers a user message holding one of the four canned
\* query strings holds exactly the fixed response of that string.
C3_CannedResponse ==
  \A i \in 1..(Len(Messages) - 1) :
    ( /\ Messages[i].role = "user"
      /\ Messages[i].content \in CannedQueries
      /\ Messages[i + 1].role = "assistant" )
    => Messages[i + 1].content = CannedResponse(Messages[i].content)

\* the template of the Send handler on every accepted free text that is no key of the
\* canned mapping: the response is non-empty and holds the text verbatim
FallbackOnFreeTexts ==
  \A t \in FreeTexts :
    (Accepts(t) /\ t \notin CannedQueries) =>
      ai_response(t) # "" /\ Contains(ai_response(t), t)

\* C4: every assistant message appended in answer to a user message whose query is none
\* of the canned mapping keys is a non-empty text that contains the query verbatim; no
\* assistant message is empty; the quick-query lookup is only ever given a key of the
\* mapping, so its default produces no response for an unmatched query; and the template
\* of the Send handler echoes every accepted free text that is no key.
C4_FallbackEchoesQuery ==
  /\ \A i \in 1..(Len(Messages) - 1) :
       ( /\ Messages[i].role = "user"
         /\ Messages[i].content \notin CannedQueries
         /\ Messages[i + 1].role = "assistant" )
       => /\ Messages[i + 1].content # ""
          /\ Contains(Messages[i + 1].content, Messages[i].content)
  /\ \A i \in 1..Len(Messages) :
       Messages[i].role = "assistant" => Messages[i].content # ""
  /\ pc = "quick_sleep" => query \in DOMAIN responses
  /\ FallbackOnFreeTexts

\* C4 witness: the log holds the user message of an accepted Send whose text is no key,
\* answered by the assistant message that quotes it.
C4_Witness ==
  /\ Len(Messages) >= 3
  /\ Messages[2].role = "user"
  /\ Accepts(Messages[2].content)
  /\ Messages[2].content \notin CannedQueries
  /\ Messages[3].role = "assistant"
  /\ Contains(Messages[3].content, "'" \o Messages[2].content \o "'")

\* C5: a script run triggered by Send while the text input is empty or whitespace-only
\* leaves the session state, and so the message log, exactly as it was.
C5_BlankSendIgnored ==
  [][(clicked' = "send_button" /\ IsBlank(user_input')) => session_state' = session_state]_vars

\* C5 witness: Send was clicked on a whitespace-only, non-empty text after a submit had
\* been accepted, and the run has ended.
C5_Witness ==
  /\ pc = "idle"
  /\ clicked = "send_button"
  /\ user_input # ""
  /\ IsBlank(user_input)
  /\ accepted >= 1

\* C6: once the first script run is over the session has a log; it is never empty, its
\* first message is the assistant greeting with the placeholder timestamp, it holds that
\* message alone until a submit is accepted, and the initialization step of a later run
\* leaves the session state as it is.
C6_SeedKept ==
  /\ pc \in {"idle", "quick_sleep", "send_sleep", "export_sleep"} =>
       "messages" \in DOMAIN session_state
  /\ "messages" \in DOMAIN session_state =>
       /\ Len(session_state.messages) >= 1
       /\ session_state.messages[1] =
            [role |-> "assistant",
             content |-> "Hello! I'm your ocean data assistant. How can I help you explore ARGO data today?",
             timestamp |-> "10:00 AM"]
       /\ (accepted = 0 => Len(session_state.messages) = 1)
       /\ Initialize(session_state) = session_state

\* C6 witness: a later script run (Update Map) has ended on a session whose log had grown.
C6_Witness ==
  /\ pc = "idle"
  /\ clicked = "update_map"
  /\ Len(Messages) >= 3

\* C7: the chat a script run renders never ends with a user message: a reader of the log
\* never sees a user message without its paired assistant response.
C7_ReaderSeesPairs ==
  chat_html_parts # << >> =>
    chat_html_parts[Len(chat_html_parts)].role_class = "assistant"

\* C8: while a format other than CSV is selected, the download column shows a warning and
\* no download button and no success is reported for the export; a download button is
\* shown only for CSV.
C8_UnsupportedFormat ==
  pc = "idle" =>
    /\ export_format # "CSV" =>
         /\ tab3.warning # ""
         /\ ~tab3.download_button
         /\ st_success # "Your data is ready for download!"
    /\ tab3.download_button => export_format = "CSV"

\* C9: every step of the session leaves the log it found as an initial part of the log
\* it leaves: messages are appended, never edited, reordered or removed.
C9_AppendOnly == [][IsPrefix(Messages, Messages')]_vars

\* C9 witness: the log has grown by a whole pair and a later Generate Export run has ended.
C9_Witness ==
  /\ pc = "idle"
  /\ clicked = "generate_export"
  /\ Len(Messages) >= 3
  /\ Messages[2].role = "user"

\* C10: whenever no script run is in progress, the chat last rendered has one entry per
\* message of the current log, in the log's order, each with the message's role, content
\* (newlines as line breaks) and timestamp.
C10_ViewIsLog ==
  pc = "idle" =>
    /\ Len(chat_html_parts) = Len(Messages)
    /\ \A i \in 1..Len(Messages) :
         /\ chat_html_parts[i].role_class = Messages[i].role
         /\ chat_html_parts[i].content = replace_newline(Messages[i].content)
         /\ chat_html_parts[i].timestamp = Messages[i].timestamp

\* C10 witness: a Send submit has run to its end and the session is at rest, the chat
\* showing the templated response last.
C10_Witness ==
  /\ pc = "idle"
  /\ Len(Messages) >= 3
  /\ query = " a "
  /\ Messages[Len(Messages)].role = "assistant"
  /\ Contains(chat_html_parts[Len(chat_html_parts)].content, " a ")

====
